---- MODULE Spec2Model ----
(***************************************************************************)
(* Model of the Ansible module hashivault_auth_ldap                        *)
(* (src/ansible/modules/hashivault/hashivault_auth_ldap.py).               *)
(*                                                                         *)
(* One invocation of the module builds desired_state from the module       *)
(* parameters, reads the LDAP auth configuration of a mount point from     *)
(* Vault, compares the two key by key and calls configure when a key       *)
(* differs and check mode is off.  The Vault server is the only state that *)
(* survives an invocation.                                                 *)
(*                                                                         *)
(* Python values are pairs <<type, payload>>; a str is the sequence of its *)
(* character codes, so that str.lower() is computed and not assumed.       *)
(* A dict is a function from its keys; the insertion order of              *)
(* desired_state, which the comparison loop follows, is desired_keys.      *)
(*                                                                         *)
(* The client is hvac: read_configuration returns the stored mapping or    *)
(* raises InvalidPath, and configure stores its keyword arguments at the   *)
(* mount point it is given, "ldap" when it is given none.  Failures of the *)
(* transport are caught by the hashiwrapper decorator, which is not part   *)
(* of this file, and are left out.                                         *)
(***************************************************************************)
EXTENDS Integers, Sequences, FiniteSets, TLC

----------------------------------------------------------------------------
(* Bounds of the model *)

\* number of module invocations in one behaviour
MaxRuns == 2

----------------------------------------------------------------------------
(* Python values *)

None == <<"NoneType", <<>>>>

PyBool(b) == <<"bool", <<IF b THEN 1 ELSE 0>>>>

PyInt(n) == <<"int", <<n>>>>

PyStr(s) == <<"str", s>>

PyList(l) == <<"list", l>>

\* bool is a subclass of int in Python: True == 1 and False == 0
IsNumber(a) == a[1] \in {"bool", "int"}

\* a != b on Python values
PyNe(a, b) ==
    IF a[1] = b[1] THEN a[2] # b[2]
    ELSE IF IsNumber(a) /\ IsNumber(b) THEN a[2] # b[2]
    ELSE TRUE

\* variant: the call to .lower() is left out
lower_left_out(v) == v

\* str.lower() on ASCII text
lower(v) ==
    PyStr([i \in 1..Len(v[2]) |->
            IF v[2][i] >= 65 /\ v[2][i] <= 90 THEN v[2][i] + 32 ELSE v[2][i]])

\* dict()
EmptyDict == [k \in {} |-> None]

\* del d[k]
Del(d, k) == [x \in (DOMAIN d) \ {k} |-> d[x]]

\* d.get(k): None when the key is absent
Get(d, k) == IF k \in DOMAIN d THEN d[k] ELSE None

----------------------------------------------------------------------------
(* String literals *)

\* ""
s_empty == <<>>

\* "ldap"
s_ldap == <<108, 100, 97, 112>>

\* "corp"
s_corp == <<99, 111, 114, 112>>

\* "cn"
s_cn == <<99, 110>>

\* "CN"
s_CN == <<67, 78>>

\* "tls12"
s_tls12 == <<116, 108, 115, 49, 50>>

\* "default"
s_default == <<100, 101, 102, 97, 117, 108, 116>>

\* "s3cret"
s_secret == <<115, 51, 99, 114, 101, 116>>

\* "ldap://"
s_url_prefix == <<108, 100, 97, 112, 58, 47, 47>>

\* "ldap://127.0.0.1"
s_default_ldap_url ==
    <<108, 100, 97, 112, 58, 47, 47, 49, 50, 55, 46, 48, 46, 48, 46, 49>>

\* "(|(memberUid={{.Username}})(member={{.UserDN}})(uniqueMember={{.UserDN}}))"
default_groupfilter ==
    <<40, 124, 40, 109, 101, 109, 98, 101, 114, 85, 105, 100, 61, 123, 123,
      46, 85, 115, 101, 114, 110, 97, 109, 101, 125, 125, 41, 40, 109, 101,
      109, 98, 101, 114, 61, 123, 123, 46, 85, 115, 101, 114, 68, 78, 125,
      125, 41, 40, 117, 110, 105, 113, 117, 101, 77, 101, 109, 98, 101, 114,
      61, 123, 123, 46, 85, 115, 101, 114, 68, 78, 125, 125, 41, 41>>

\* "({{.UserAttr}}={{.Username}})"
default_userfilter ==
    <<40, 123, 123, 46, 85, 115, 101, 114, 65, 116, 116, 114, 125, 125, 61,
      123, 123, 46, 85, 115, 101, 114, 110, 97, 109, 101, 125, 125, 41>>

----------------------------------------------------------------------------
(* main: the argument schema, each option with its default *)

argspec ==
    [ mount_point             |-> PyStr(s_ldap),
      anonymous_group_search  |-> PyBool(FALSE),
      binddn                  |-> PyStr(s_empty),
      bindpass                |-> None,
      case_sensitive_names    |-> PyBool(FALSE),
      certificate             |-> PyStr(s_empty),
      deny_null_bind          |-> PyBool(TRUE),
      discoverdn              |-> PyBool(FALSE),
      groupattr               |-> PyStr(s_cn),
      groupdn                 |-> PyStr(s_empty),
      groupfilter             |-> PyStr(default_groupfilter),
      insecure_tls            |-> PyBool(FALSE),
      request_timeout         |-> PyInt(90),
      starttls                |-> PyBool(FALSE),
      tls_max_version         |-> PyStr(s_tls12),
      tls_min_version         |-> PyStr(s_tls12),
      token_bound_cidrs       |-> PyList(<<>>),
      token_explicit_max_ttl  |-> PyInt(0),
      token_max_ttl           |-> PyInt(0),
      token_no_default_policy |-> PyBool(FALSE),
      token_num_uses          |-> PyInt(0),
      token_period            |-> PyInt(0),
      token_policies          |-> PyList(<<>>),
      token_ttl               |-> PyInt(0),
      token_type              |-> PyStr(s_default),
      upndomain               |-> PyStr(s_empty),
      ldap_url                |-> PyStr(s_default_ldap_url),
      use_token_groups        |-> PyBool(FALSE),
      userattr                |-> PyStr(s_cn),
      userdn                  |-> PyStr(s_empty),
      userfilter              |-> PyStr(default_userfilter),
      username_as_alias       |-> PyBool(FALSE) ]

\* module.params: every option of the schema, as supplied or else its default
module_params(supplied) ==
    [name \in DOMAIN argspec |->
        IF name \in DOMAIN supplied THEN supplied[name] ELSE argspec[name]]

----------------------------------------------------------------------------
(* hashivault_auth_ldap: desired_state *)

\* the keys of the desired_state literal, in insertion order
desired_keys ==
    << "anonymous_group_search", "binddn", "bindpass", "case_sensitive_names",
       "certificate", "deny_null_bind", "discoverdn", "groupattr", "groupdn",
       "groupfilter", "insecure_tls", "request_timeout", "starttls",
       "tls_max_version", "tls_min_version", "token_bound_cidrs",
       "token_explicit_max_ttl", "token_max_ttl", "token_no_default_policy",
       "token_num_uses", "token_period", "token_policies", "token_ttl",
       "token_type", "upndomain", "url", "use_pre111_group_cn_behavior",
       "use_token_groups", "userattr", "userdn", "userfilter",
       "username_as_alias" >>

\* the desired_state literal
desired_state_literal(params) ==
    [ anonymous_group_search  |-> Get(params, "anonymous_group_search"),
      binddn                  |-> Get(params, "binddn"),
      bindpass                |-> Get(params, "bindpass"),
      case_sensitive_names    |-> Get(params, "case_sensitive_names"),
      certificate             |-> Get(params, "certificate"),
      deny_null_bind          |-> Get(params, "deny_null_bind"),
      discoverdn              |-> Get(params, "discoverdn"),
      groupattr               |-> lower(Get(params, "groupattr")),
      groupdn                 |-> Get(params, "groupdn"),
      groupfilter             |-> Get(params, "groupfilter"),
      insecure_tls            |-> Get(params, "insecure_tls"),
      request_timeout         |-> Get(params, "request_timeout"),
      starttls                |-> Get(params, "starttls"),
      tls_max_version         |-> Get(params, "tls_max_version"),
      tls_min_version         |-> Get(params, "tls_min_version"),
      token_bound_cidrs       |-> Get(params, "token_bound_cidrs"),
      token_explicit_max_ttl  |-> Get(params, "token_explicit_max_ttl"),
      token_max_ttl           |-> Get(params, "token_max_ttl"),
      token_no_default_policy |-> Get(params, "token_no_default_policy"),
      token_num_uses          |-> Get(params, "token_num_uses"),
      token_period            |-> Get(params, "token_period"),
      token_policies          |-> Get(params, "token_policies"),
      token_ttl               |-> Get(params, "token_ttl"),
      token_type              |-> Get(params, "token_type"),
      upndomain               |-> Get(params, "upndomain"),
      url                     |-> Get(params, "ldap_url"),
      use_pre111_group_cn_behavior
                              |-> Get(params, "use_pre111_group_cn_behavior"),
      use_token_groups        |-> Get(params, "use_token_groups"),
      userattr                |-> lower(Get(params, "userattr")),
      userdn                  |-> Get(params, "userdn"),
      userfilter              |-> Get(params, "userfilter"),
      username_as_alias       |-> Get(params, "username_as_alias") ]

\* if bind pass is None, remove it from desired state
drop_absent_bindpass(d) ==
    IF d["bindpass"] = None THEN Del(d, "bindpass") ELSE d

\* desired_state as the comparison loop and configure see it
desired_state_of(params) ==
    drop_absent_bindpass(desired_state_literal(params))

----------------------------------------------------------------------------
(* hashivault_auth_ldap: the comparison loop *)

\* variant: the test k != "bindpass" is left out
compare_key_with_bindpass(k, v, current_state) ==
    IF k \in DOMAIN current_state THEN
        IF PyNe(v, current_state[k]) THEN "differs" ELSE "equal"
    ELSE "KeyError"

\* variant: current_state.get(k) in place of current_state[k], so that a
\* missing key compares as None
compare_key_with_get(k, v, current_state) ==
    IF k # "bindpass" THEN
        IF PyNe(v, Get(current_state, k)) THEN "differs" ELSE "equal"
    ELSE "skipped"

\* the body of the loop for key k with value v: the key is skipped, the
\* lookup current_state[k] raises KeyError, or the values are compared
compare_key(k, v, current_state) ==
    IF k # "bindpass" THEN
        IF k \in DOMAIN current_state THEN
            IF PyNe(v, current_state[k]) THEN "differs" ELSE "equal"
        ELSE "KeyError"
    ELSE "skipped"

\* the failed result returned from inside the loop; str(KeyError(k)) is the
\* quoted key
key_error_result(k) ==
    [failed |-> TRUE, msg |-> <<"HVAC unsupported parameter: ", k>>]

\* for k, v in desired_state.items(), from the i-th key on: the value of
\* changed after the loop, or the result the loop returns
RECURSIVE compare_loop(_, _, _, _)
compare_loop(desired, current, i, changed) ==
    IF i > Len(desired_keys) THEN [returned |-> FALSE, changed |-> changed]
    ELSE IF desired_keys[i] \notin DOMAIN desired
    THEN compare_loop(desired, current, i + 1, changed)
    ELSE LET k == desired_keys[i]
             step == compare_key(k, desired[k], current)
         IN  IF step = "KeyError"
             THEN [returned |-> TRUE, result |-> key_error_result(k)]
             ELSE compare_loop(desired, current, i + 1,
                               changed \/ step = "differs")

\* variant: check mode is not consulted
complete_the_change_in_check_mode(changed, check_mode) == changed

\* variant: changed is not consulted
complete_the_change_unchanged(changed, check_mode) == ~check_mode

\* if changed and not module.check_mode
complete_the_change(changed, check_mode) == changed /\ ~check_mode

\* variant: the secret is held back from the call
configure_kwargs_without_bindpass(desired) == Del(desired, "bindpass")

\* the keyword arguments of client.auth.ldap.configure
configure_kwargs(desired) == desired

\* the result returned after the comparison
diff_result(changed, current_state, desired_state) ==
    [changed |-> changed,
     diff |-> [before |-> current_state, after |-> desired_state]]

----------------------------------------------------------------------------
(* The Vault server behind client.auth.ldap *)

\* the mount points of the LDAP auth method on the server
MountPoints == {PyStr(s_ldap), PyStr(s_corp)}

\* the mount point configure uses when the caller passes none
DEFAULT_MOUNT_POINT == PyStr(s_ldap)

\* the ldap_url values the caller chooses from: "ldap://a" and "ldap://b"
Urls == {PyStr(s_url_prefix \o <<97>>), PyStr(s_url_prefix \o <<98>>)}

\* read_configuration(mount_point): the stored data, or InvalidPath when the
\* mount point was never configured
read_configuration(server, mount_point) ==
    IF server[mount_point].configured
    THEN [raised |-> FALSE, data |-> server[mount_point].data]
    ELSE [raised |-> TRUE, data |-> EmptyDict]

\* configure(**kwargs): the server stores the keyword arguments at the
\* mount point named by mount_point, the default one if it is not passed
configure(server, kwargs) ==
    LET target == IF "mount_point" \in DOMAIN kwargs
                  THEN kwargs["mount_point"] ELSE DEFAULT_MOUNT_POINT
    IN  [server EXCEPT ![target] =
            [configured |-> TRUE, data |-> Del(kwargs, "mount_point")]]

\* current_state after the try/except around read_configuration
current_state_of(read) == IF read.raised THEN EmptyDict ELSE read.data

----------------------------------------------------------------------------
(* State *)

VARIABLES
    vault,          \* per mount point: configured, and the stored mapping
    runs,           \* number of invocations so far
    module,         \* params and check_mode of the latest invocation
    desired_state,  \* desired_state of the latest invocation
    current_state,  \* current_state of the latest invocation
    result,         \* what hashivault_auth_ldap returned
    calls,          \* the client calls of the latest invocation, in order
    exit            \* how main ended: "fail_json" or "exit_json"

vars == <<vault, runs, module, desired_state, current_state, result, calls,
          exit>>

\* a configuration as a server holds it before the module has run: the
\* comparable keys and a key the module does not manage; schema is
\* "current", "mirror" (use_pre111_group_cn_behavior unset) or "legacy"
\* (a server that does not know the two newest keys)
ServerConfig(url, schema) ==
    LET base == Del(desired_state_literal(
                       module_params([ldap_url |-> url])), "bindpass")
        full == [k \in (DOMAIN base) \cup {"client_tls_cert"} |->
                    IF k = "client_tls_cert" THEN PyStr(s_empty)
                    ELSE IF k = "use_pre111_group_cn_behavior"
                              /\ schema = "current"
                    THEN PyBool(FALSE)
                    ELSE base[k]]
    IN  IF schema = "legacy"
        THEN Del(Del(full, "use_pre111_group_cn_behavior"),
                 "username_as_alias")
        ELSE full

FirstUrl == PyStr(s_url_prefix \o <<97>>)

Unconfigured == [configured |-> FALSE, data |-> EmptyDict]

Configured(schema) ==
    [configured |-> TRUE, data |-> ServerConfig(FirstUrl, schema)]

\* the server before the first run: the default mount point is fresh or
\* holds a current configuration; the other one is in any of the four shapes
InitialVaults ==
    {[mp \in MountPoints |-> IF mp = DEFAULT_MOUNT_POINT THEN d ELSE o] :
        d \in {Unconfigured, Configured("current")},
        o \in {Unconfigured, Configured("current"), Configured("mirror"),
               Configured("legacy")}}

Init ==
    /\ vault \in InitialVaults
    /\ runs = 0
    /\ module = [params |-> argspec, check_mode |-> FALSE]
    /\ desired_state = EmptyDict
    /\ current_state = EmptyDict
    /\ result = EmptyDict
    /\ calls = <<>>
    /\ exit = "not run"

----------------------------------------------------------------------------
(* One run of the module: main and hashivault_auth_ldap *)

hashivault_auth_ldap(params, check_mode) ==
    LET mount_point == Get(params, "mount_point")
        read == read_configuration(vault, mount_point)
        read_call == [op |-> "read_configuration",
                      kwargs |-> [mount_point |-> mount_point],
                      InvalidPath |-> read.raised]
        write_call == [op |-> "configure",
                       kwargs |-> configure_kwargs(desired_state'),
                       InvalidPath |-> FALSE]
    IN  /\ desired_state' = desired_state_of(params)
        /\ current_state' = current_state_of(read)
        /\ \E loop \in {compare_loop(desired_state', current_state', 1,
                                      FALSE)} :
             IF loop.returned
             THEN /\ result' = loop.result
                  /\ calls' = <<read_call>>
                  /\ vault' = vault
             ELSE /\ result' = diff_result(loop.changed, current_state',
                                           desired_state')
                  /\ IF complete_the_change(loop.changed, check_mode)
                     THEN /\ calls' = <<read_call, write_call>>
                          /\ vault' = configure(vault, write_call.kwargs)
                     ELSE /\ calls' = <<read_call>>
                          /\ vault' = vault

\* result.get('failed')
get_failed(r) == "failed" \in DOMAIN r /\ r.failed

main(supplied, check_mode) ==
    /\ runs < MaxRuns
    /\ runs' = runs + 1
    /\ module' = [params |-> module_params(supplied),
                  check_mode |-> check_mode]
    /\ hashivault_auth_ldap(module'.params, module'.check_mode)
    /\ exit' = IF get_failed(result') THEN "fail_json" ELSE "exit_json"

\* what the caller may supply for bindpass: nothing, "" or a password
BindpassInputs == {None, PyStr(s_empty), PyStr(s_secret)}

AttrInputs == {PyStr(s_cn), PyStr(s_CN)}

Supplied(mp, url, ga, ua, bp) ==
    [mount_point |-> mp, ldap_url |-> url, groupattr |-> ga,
     userattr |-> ua, bindpass |-> bp]

Run ==
    \E mp \in MountPoints, url \in Urls, ga \in AttrInputs,
       ua \in AttrInputs, bp \in BindpassInputs, cm \in BOOLEAN :
        main(Supplied(mp, url, ga, ua, bp), cm)

Next == Run

Spec == Init /\ [][Next]_vars

----------------------------------------------------------------------------
(* Vocabulary of the properties *)

Ran == runs > 0

Failed == Ran /\ get_failed(result)

Succeeded == Ran /\ ~get_failed(result)

Changed == Succeeded /\ result.changed

Unchanged == Succeeded /\ ~result.changed

\* the configure calls of the latest run
ConfigureCalls == SelectSeq(calls, LAMBDA c : c.op = "configure")

\* read_configuration returned a mapping in the latest run
ReadReturned == Ran /\ ~calls[1].InvalidPath

\* read_configuration raised InvalidPath in the latest run
ReadNotConfigured == Ran /\ calls[1].InvalidPath

NonSecretKeys(d) == (DOMAIN d) \ {"bindpass"}

\* the non-secret keys of desired_state that current_state lacks
MissingKeys == NonSecretKeys(desired_state) \ DOMAIN current_state

\* the non-secret keys both mappings hold with different values
DifferingKeys ==
    {k \in NonSecretKeys(desired_state) \cap DOMAIN current_state :
        desired_state[k] # current_state[k]}

\* the caller supplied a bindpass
BindpassSupplied == module.params["bindpass"] # None

\* exactly one configure call, carrying all of desired_state
WroteDesiredStateOnce ==
    /\ Len(ConfigureCalls) = 1
    /\ ConfigureCalls[1].kwargs = desired_state

----------------------------------------------------------------------------
(* C2 *)

\* C2: when read_configuration raises InvalidPath (the mount point is not
\* configured), the run does not fail: it returns changed and a diff whose
\* before is the empty mapping.
C2_NotConfiguredIsNotAFailure ==
    ReadNotConfigured =>
        /\ ~Failed
        /\ "diff" \in DOMAIN result
        /\ result.diff.before = EmptyDict

----------------------------------------------------------------------------
(* C3 *)

\* C3 as stated: whenever current_state differs from desired_state in a
\* non-secret key, the run reports changed=true and, check mode off, calls
\* configure exactly once with all of desired_state.
C3_DifferenceMeansChangedAndOneWrite ==
    (Ran /\ DifferingKeys # {}) =>
        /\ Changed
        /\ ~module.check_mode => WroteDesiredStateOnce

\* C3 amended: whenever current_state holds every non-secret key of
\* desired_state and differs from it in at least one of them, the run
\* reports changed=true and, check mode off, calls configure exactly once
\* with all of desired_state, bindpass included iff desired_state has it.
C3_DifferenceOnSharedKeysMeansChangedAndOneWrite ==
    (Ran /\ MissingKeys = {} /\ DifferingKeys # {}) =>
        /\ Changed
        /\ ~module.check_mode =>
              /\ WroteDesiredStateOnce
              /\ "bindpass" \in DOMAIN ConfigureCalls[1].kwargs
                    <=> "bindpass" \in DOMAIN desired_state

\* a run off check mode found a difference and wrote a desired_state that
\* carries a bindpass
C3_Witness ==
    /\ Ran /\ MissingKeys = {} /\ DifferingKeys # {}
    /\ ~module.check_mode
    /\ "bindpass" \in DOMAIN desired_state
    /\ Len(ConfigureCalls) = 1

----------------------------------------------------------------------------
(* C4 *)

\* C4: whenever current_state equals desired_state on every non-secret key of
\* desired_state, the run returns changed=false and calls configure not at
\* all, in check mode or out of it.
C4_EqualMeansUnchangedAndNoWrite ==
    (Ran /\ MissingKeys = {} /\ DifferingKeys = {}) =>
        /\ Unchanged
        /\ Len(ConfigureCalls) = 0

\* an applying run met a current_state equal on the non-secret keys that has
\* a key desired_state lacks and no bindpass, while desired_state has one
C4_Witness ==
    /\ Ran /\ MissingKeys = {} /\ DifferingKeys = {}
    /\ ~module.check_mode
    /\ (DOMAIN current_state) \ (DOMAIN desired_state) # {}
    /\ "bindpass" \in (DOMAIN desired_state) \ (DOMAIN current_state)

----------------------------------------------------------------------------
(* C5 *)

\* C5: a run in check mode calls configure not at all, whatever changed is,
\* and leaves the configuration on the server as it was.
C5_CheckModeNeverWrites ==
    [][module'.check_mode =>
          /\ Len(SelectSeq(calls', LAMBDA c : c.op = "configure")) = 0
          /\ vault' = vault]_vars

\* a run in check mode reported changed=true
C5_Witness == Changed /\ module.check_mode

----------------------------------------------------------------------------
(* C6 *)

\* C6: when the mapping read_configuration returned lacks a non-secret key of
\* desired_state, the run fails with a message naming a missing key and
\* calls configure not at all, even if other keys differ and check mode is
\* off.
C6_MissingKeyFails ==
    (ReadReturned /\ MissingKeys # {}) =>
        /\ Failed
        /\ \E k \in MissingKeys :
              result.msg = <<"HVAC unsupported parameter: ", k>>
        /\ Len(ConfigureCalls) = 0

\* an applying run read a mapping that lacks a key and differs in another
C6_Witness ==
    /\ ReadReturned /\ MissingKeys # {} /\ DifferingKeys # {}
    /\ ~module.check_mode
    /\ Failed

----------------------------------------------------------------------------
(* C7 *)

\* current_state with the server's bindpass set to rb, or without one
WithRemoteBindpass(current, rb) ==
    IF rb = None THEN Del(current, "bindpass")
    ELSE [k \in (DOMAIN current) \cup {"bindpass"} |->
            IF k = "bindpass" THEN rb ELSE current[k]]

\* what a run with parameters params reports against current
Verdict(params, current) ==
    LET loop == compare_loop(desired_state_of(params), current, 1, FALSE)
    IN  IF loop.returned THEN "failed"
        ELSE IF loop.changed THEN "changed" ELSE "unchanged"

\* what the latest run reported
ObservedVerdict ==
    IF Failed THEN "failed" ELSE IF Changed THEN "changed" ELSE "unchanged"

\* C7: bindpass has no influence on changed: the run would have reported the
\* same with any other bindpass supplied and any other bindpass held by the
\* server.  bindpass is a key of desired_state exactly when the caller
\* supplied one, so a configure call carries a bindpass only then.
C7_BindpassNeverCompared ==
    Ran =>
        /\ \A bp \in BindpassInputs, rb \in BindpassInputs :
              Verdict([module.params EXCEPT !["bindpass"] = bp],
                      WithRemoteBindpass(current_state, rb))
                 = ObservedVerdict
        /\ "bindpass" \in DOMAIN desired_state <=> BindpassSupplied
        /\ \A i \in 1..Len(ConfigureCalls) :
              "bindpass" \in DOMAIN ConfigureCalls[i].kwargs
                 <=> BindpassSupplied

\* the caller supplied a bindpass other than the one the server holds, and
\* the run reported changed=false
C7_Witness ==
    /\ Unchanged
    /\ BindpassSupplied
    /\ "bindpass" \in DOMAIN current_state
    /\ current_state["bindpass"] # desired_state["bindpass"]

----------------------------------------------------------------------------
(* C8 *)

AttrKeys == {"groupattr", "userattr"}

IsUpper(c) == c >= 65 /\ c <= 90

NoUpper(v) == \A i \in 1..Len(v[2]) : ~IsUpper(v[2][i])

\* b is a with every upper-case letter replaced by its lower-case letter
LowerCaseOf(a, b) ==
    /\ a[1] = "str" /\ b[1] = "str"
    /\ Len(a[2]) = Len(b[2])
    /\ \A i \in 1..Len(a[2]) :
          b[2][i] = IF IsUpper(a[2][i]) THEN a[2][i] + 32 ELSE a[2][i]

\* the server holds lower-case userattr and groupattr that equal the
\* supplied ones up to letter case, and every other non-secret key of
\* desired_state with the desired value
DiffersInAttrCaseOnly ==
    /\ ReadReturned
    /\ MissingKeys = {}
    /\ \A k \in AttrKeys :
          /\ NoUpper(current_state[k])
          /\ LowerCaseOf(module.params[k], current_state[k])
    /\ DifferingKeys \subseteq AttrKeys

\* C8: desired_state holds userattr and groupattr lower-cased, a configure
\* call carries them lower-cased, and an input that differs from the server
\* only in the letter case of userattr and groupattr reports changed=false.
C8_AttrsLowerCased ==
    Ran =>
        /\ \A k \in AttrKeys :
              /\ LowerCaseOf(module.params[k], desired_state[k])
              /\ \A i \in 1..Len(ConfigureCalls) :
                    LowerCaseOf(module.params[k], ConfigureCalls[i].kwargs[k])
        /\ DiffersInAttrCaseOnly => Unchanged

\* userattr and groupattr were supplied in upper case against a server that
\* holds them in lower case, and the run reported changed=false
C8_Witness ==
    /\ DiffersInAttrCaseOnly
    /\ \A k \in AttrKeys : module.params[k] = PyStr(s_CN)
    /\ Unchanged

----------------------------------------------------------------------------
(* C9 *)

\* C9: every key of desired_state, and of the mapping passed to configure,
\* is the name of an option declared in the argument schema.
C9_DesiredKeysAreDeclared ==
    Ran =>
        /\ DOMAIN desired_state \subseteq DOMAIN argspec
        /\ \A i \in 1..Len(ConfigureCalls) :
              DOMAIN ConfigureCalls[i].kwargs \subseteq DOMAIN argspec

----------------------------------------------------------------------------
(* C10 *)

\* C10: a run changes the configuration of no mount point other than the
\* one given as mount_point, the one it read.
C10_WriteOnlyAtMountPoint ==
    [][\A mp \in MountPoints :
          mp # module'.params["mount_point"] => vault'[mp] = vault[mp]]_vars

----------------------------------------------------------------------------
(* C1 *)

\* C1: after an applying run that reported changed=true and whose configure
\* call the server stored, the next run with the same parameters and the
\* same mount point reports changed=false and calls configure not at all.
C1_SecondRunUnchanged ==
    [][(/\ Changed
        /\ ~module.check_mode
        /\ Len(ConfigureCalls) = 1
        /\ runs' = runs + 1
        /\ module' = module)
          => /\ ~get_failed(result')
             /\ ~result'.changed
             /\ Len(SelectSeq(calls', LAMBDA c : c.op = "configure")) = 0]_vars

====
